---- MODULE Spec2Model ----
(***************************************************************************)
(* The item service of app.py: six handlers over one table "items".       *)
(*                                                                         *)
(* A value that may be None / NULL is a sequence of length at most one:    *)
(* <<>> is None, <<v>> is the value v.  A request body is the function     *)
(* model_dump(exclude_unset=True) returns: its DOMAIN is the set of fields *)
(* the client sent.  The table is a function from the primary keys in use  *)
(* to the other four columns.                                              *)
(***************************************************************************)
EXTENDS Integers, FiniteSets, Sequences, TLC

VARIABLES
    db,        \* the rows of table items: id -> [name, description, price, available]
    seq,       \* next value of the serial sequence behind items.id (PostgreSQL)
    backend,   \* the engine the session factory is bound to
    sess,      \* per worker: the request it is handling and how far it got
    nreq,      \* requests received so far (bounded in the interleaved specification)
    deleted    \* history: ids whose DELETE answered 200 (only SpecHist records it)

vars == <<db, seq, backend, sess, nreq, deleted>>

(* ------------------------------ bounds --------------------------------- *)
MaxId == 2          \* ids the model uses: the sequence and the ids a body may carry
MaxRows == 1        \* rows the table holds at a time
MaxRequests == 3    \* requests one interleaved behaviour receives

Ids == 1..MaxId
Names == {"A", "B"}
Descriptions == {"d"}
Prices == {10}

Null == <<>>
Opt(S) == {Null} \cup {<<v>> : v \in S}

Workers == {"w1", "w2"}
Serial == "w1"      \* the worker of the one-request-at-a-time specification

(* ------------------------------ schemas -------------------------------- *)
\* class ItemDB: the columns besides the primary key.
Columns == {"name", "description", "price", "available"}

\* class Item, as a request body: name and price required; id, description
\* and available optional (id and description may be null).  The bodies
\* enumerated carry the two required fields and at most one optional one.
ItemBodies ==
    LET required == {[name |-> <<n>>, price |-> <<p>>] : n \in Names, p \in Prices}
        optional == {"id" :> v : v \in Opt(Ids)}
                    \cup {"description" :> v : v \in Opt(Descriptions)}
                    \cup {"available" :> <<a>> : a \in BOOLEAN}
    IN  required \cup {r @@ o : r \in required, o \in optional}

\* class ItemUpdate, as a request body: every field optional and nullable;
\* it has no id field.  The bodies enumerated set at most one field.
ItemUpdateBodies ==
    {<<>>}
    \cup {"name" :> v : v \in Opt(Names)}
    \cup {"description" :> v : v \in Opt(Descriptions)}
    \cup {"price" :> v : v \in Opt(Prices)}
    \cup {"available" :> v : v \in Opt(BOOLEAN)}

\* response_model=Item: name, price and available must not be None.
Validates(obj) ==
    /\ obj.name # Null
    /\ obj.price # Null
    /\ obj.available # Null

(* ------------------------------ responses ------------------------------ *)
NotFound == [status |-> 404, body |-> [detail |-> "Item not found"]]
\* an exception that is no HTTPException (IntegrityError, StaleDataError,
\* FlushError, InvalidRequestError, ResponseValidationError)
ServerError == [status |-> 500, body |-> [detail |-> "Internal Server Error"]]
Ok(body) == [status |-> 200, body |-> body]

\* returning an ORM object through response_model=Item
ItemResponse(obj) == IF Validates(obj) THEN Ok(obj) ELSE ServerError
\* returning the list of ORM objects through response_model=List[Item]
ListResponse(objs) ==
    IF \A o \in objs : Validates(o) THEN Ok([items |-> objs]) ELSE ServerError

(* ------------------------------ storage -------------------------------- *)
\* The ORM object of row i.
Row(d, i) == [id |-> <<i>>, name |-> d[i].name, description |-> d[i].description,
              price |-> d[i].price, available |-> d[i].available]

\* select(ItemDB).filter(ItemDB.id == item_id): the set of matching objects;
\* scalar_one_or_none() is None when it is empty.
Select(d, item_id) == {Row(d, i) : i \in {j \in DOMAIN d : j = item_id}}

\* select(ItemDB)
SelectAll(d) == {Row(d, i) : i \in DOMAIN d}

SetMax(S) == CHOOSE m \in S : \A k \in S : k <= m

\* The id the engine gives a row inserted without one: the serial sequence
\* (postgresql+asyncpg), or one more than the largest rowid (sqlite+aiosqlite).
AutoId(d, s, b) ==
    IF b = "postgresql" THEN s
    ELSE IF DOMAIN d = {} THEN 1 ELSE SetMax(DOMAIN d) + 1

HasId(body) == "id" \in DOMAIN body /\ body["id"] # Null

\* ItemDB(**fields); db.add; db.commit: one INSERT.  An id in the fields is
\* inserted as given.  Column defaults: available True, description NULL.
\* A taken primary key raises IntegrityError; a nextval is not rolled back.
Insert(d, s, b, fields) ==
    LET newid == IF HasId(fields) THEN fields["id"][1] ELSE AutoId(d, s, b)
        s2 == IF ~HasId(fields) /\ b = "postgresql" THEN s + 1 ELSE s
        row == [c \in Columns |->
                  IF c \in DOMAIN fields THEN fields[c]
                  ELSE IF c = "available" THEN <<TRUE>> ELSE Null]
    IN  IF newid \in DOMAIN d
        THEN [ok |-> FALSE, db |-> d, seq |-> s2, id |-> newid]
        ELSE [ok |-> TRUE,
              db |-> [i \in DOMAIN d \cup {newid} |-> IF i = newid THEN row ELSE d[i]],
              seq |-> s2, id |-> newid]

\* for key, value in body.items(): setattr(db_item, key, value)
SetAttrs(obj, body) ==
    [f \in DOMAIN obj |-> IF f \in DOMAIN body THEN body[f] ELSE obj[f]]

\* db.commit() after setattr on a loaded object: one UPDATE of the attributes
\* whose value changed, WHERE id = the id loaded.  No changed attribute: no
\* statement.  A None primary key raises FlushError, no matched row raises
\* StaleDataError, a taken primary key raises IntegrityError.
Update(d, obj, body) ==
    LET new == SetAttrs(obj, body)
        changed == {f \in DOMAIN obj : new[f] # obj[f]}
        old == obj.id[1]
    IN  IF changed = {} THEN [ok |-> TRUE, db |-> d, obj |-> new]
        ELSE IF new.id = Null THEN [ok |-> FALSE, db |-> d, obj |-> new]
        ELSE IF old \notin DOMAIN d THEN [ok |-> FALSE, db |-> d, obj |-> new]
        ELSE IF new.id[1] # old /\ new.id[1] \in DOMAIN d
             THEN [ok |-> FALSE, db |-> d, obj |-> new]
        ELSE [ok |-> TRUE,
              db |-> [i \in (DOMAIN d \ {old}) \cup {new.id[1]} |->
                        IF i = new.id[1]
                        THEN [c \in Columns |->
                                IF c \in changed THEN new[c] ELSE d[old][c]]
                        ELSE d[i]],
              obj |-> new]

\* db.delete(db_item); db.commit(): one DELETE WHERE id = the id loaded.  A
\* DELETE that matches no row only warns.
Delete(d, obj) == [i \in DOMAIN d \ {obj.id[1]} |-> d[i]]

\* db.refresh(db_item): select by the object's identity; no row raises
\* InvalidRequestError.
Refresh(d, obj) ==
    LET rows == Select(d, obj.id[1])
    IN  IF rows = {} THEN ServerError
        ELSE ItemResponse(CHOOSE r \in rows : TRUE)

(* ------------------------------ handlers ------------------------------- *)
\* Each handler run without interruption: its response and the table and
\* sequence it leaves.
Result(resp, d, s) == [resp |-> resp, db |-> d, seq |-> s]

root(d, s) == Result(Ok([message |-> "Service is running"]), d, s)

get_items(d, s) == Result(ListResponse(SelectAll(d)), d, s)

get_item(d, s, item_id) ==
    LET found == Select(d, item_id)
    IN  IF found = {} THEN Result(NotFound, d, s)
        ELSE Result(ItemResponse(CHOOSE r \in found : TRUE), d, s)

\* create_item returning the request model instead of the refreshed row
create_item_echo(d, s, b, item) ==
    LET ins == Insert(d, s, b, item)
        echo == [id |-> IF "id" \in DOMAIN item THEN item["id"] ELSE Null,
                 name |-> item["name"],
                 description |-> IF "description" \in DOMAIN item
                                 THEN item["description"] ELSE Null,
                 price |-> item["price"],
                 available |-> IF "available" \in DOMAIN item
                               THEN item["available"] ELSE <<TRUE>>]
    IN  IF ~ins.ok THEN Result(ServerError, ins.db, ins.seq)
        ELSE Result(ItemResponse(echo), ins.db, ins.seq)

create_item(d, s, b, item) ==
    LET ins == Insert(d, s, b, item)
    IN  IF ~ins.ok THEN Result(ServerError, ins.db, ins.seq)
        ELSE Result(Refresh(ins.db, [id |-> <<ins.id>>]), ins.db, ins.seq)

update_item(d, s, item_id, updated_item) ==
    LET found == Select(d, item_id)
    IN  IF found = {} THEN Result(NotFound, d, s)
        ELSE LET up == Update(d, CHOOSE r \in found : TRUE, updated_item)
             IN  IF ~up.ok THEN Result(ServerError, up.db, s)
                 ELSE Result(Refresh(up.db, up.obj), up.db, s)

patch_item(d, s, item_id, item_data) ==
    LET found == Select(d, item_id)
    IN  IF found = {} THEN Result(NotFound, d, s)
        ELSE LET up == Update(d, CHOOSE r \in found : TRUE, item_data)
             IN  IF ~up.ok THEN Result(ServerError, up.db, s)
                 ELSE Result(Refresh(up.db, up.obj), up.db, s)

DeletedDetail(item_id) == [detail |-> "Item " \o ToString(item_id) \o " deleted"]

\* delete_item without the check for a missing row
delete_item_nocheck(d, s, item_id) ==
    Result(Ok(DeletedDetail(item_id)), Delete(d, [id |-> <<item_id>>]), s)

delete_item(d, s, item_id) ==
    LET found == Select(d, item_id)
    IN  IF found = {} THEN Result(NotFound, d, s)
        ELSE Result(Ok(DeletedDetail(item_id)), Delete(d, CHOOSE r \in found : TRUE), s)

(* ------------------------------ sessions ------------------------------- *)
NoReq == [op |-> "none"]
NoResp == [status |-> 0, body |-> [detail |-> ""]]
Idle == [pc |-> "idle", req |-> NoReq, obj |-> {}, resp |-> NoResp]
Done(req, resp) == [pc |-> "done", req |-> req, obj |-> {}, resp |-> resp]

\* The table exists and holds no row; the sequence starts at 1.
Init ==
    /\ db = <<>>
    /\ seq = 1
    /\ backend \in {"postgresql", "sqlite"}
    /\ sess = [w \in Workers |-> Idle]
    /\ nreq = 0
    /\ deleted = {}

\* One request handled from start to end by worker w, no other in flight.
Handle(w, req, r) ==
    /\ \A v \in Workers : sess[v].pc = "idle"
    /\ sess' = [sess EXCEPT ![w] = Done(req, r.resp)]
    /\ db' = r.db
    /\ seq' = r.seq
    /\ UNCHANGED <<backend, nreq>>

\* the model stops creating rows when the id would leave Ids or the table
\* would hold more than MaxRows rows
InBounds(d, s, b, item) ==
    /\ HasId(item) \/ AutoId(d, s, b) \in Ids
    /\ Cardinality(DOMAIN Insert(d, s, b, item).db) <= MaxRows

Root ==
    /\ Handle(Serial, [op |-> "GET /"], root(db, seq))
    /\ UNCHANGED deleted

GetItems ==
    /\ Handle(Serial, [op |-> "GET /items"], get_items(db, seq))
    /\ UNCHANGED deleted

GetItem ==
    \E item_id \in Ids :
        /\ Handle(Serial, [op |-> "GET /items/{item_id}", item_id |-> item_id],
                  get_item(db, seq, item_id))
        /\ UNCHANGED deleted

CreateItem ==
    \E item \in ItemBodies :
        /\ InBounds(db, seq, backend, item)
        /\ Handle(Serial, [op |-> "POST /items", body |-> item],
                  create_item(db, seq, backend, item))
        /\ UNCHANGED deleted

UpdateItem ==
    \E item_id \in Ids, updated_item \in ItemBodies :
        /\ Handle(Serial, [op |-> "PUT /items/{item_id}", item_id |-> item_id,
                           body |-> updated_item],
                  update_item(db, seq, item_id, updated_item))
        /\ UNCHANGED deleted

PatchItem ==
    \E item_id \in Ids, item_data \in ItemUpdateBodies :
        /\ Handle(Serial, [op |-> "PATCH /items/{item_id}", item_id |-> item_id,
                           body |-> item_data],
                  patch_item(db, seq, item_id, item_data))
        /\ UNCHANGED deleted

DeleteItem ==
    \E item_id \in Ids :
        /\ Handle(Serial, [op |-> "DELETE /items/{item_id}", item_id |-> item_id],
                  delete_item(db, seq, item_id))
        /\ UNCHANGED deleted

\* get_db: the session is released when the response has been produced.
Close ==
    \E w \in Workers :
        /\ sess[w].pc = "done"
        /\ sess' = [sess EXCEPT ![w] = Idle]
        /\ UNCHANGED <<db, seq, backend, nreq, deleted>>

Next ==
    \/ Root
    \/ GetItems
    \/ GetItem
    \/ CreateItem
    \/ UpdateItem
    \/ PatchItem
    \/ DeleteItem
    \/ Close

Spec == Init /\ [][Next]_vars

(* ---------------------- history of deleted ids ------------------------- *)
\* DeleteItem, recording the id when the delete is answered 200.
DeleteItemH ==
    \E item_id \in Ids :
        LET r == delete_item(db, seq, item_id)
        IN  /\ Handle(Serial, [op |-> "DELETE /items/{item_id}", item_id |-> item_id], r)
            /\ deleted' = IF r.resp.status = 200 THEN deleted \cup {item_id}
                                                 ELSE deleted

NextHist ==
    \/ Root
    \/ GetItems
    \/ GetItem
    \/ CreateItem
    \/ UpdateItem
    \/ PatchItem
    \/ DeleteItemH
    \/ Close

SpecHist == Init /\ [][NextHist]_vars

(* ---------------------- interleaved requests --------------------------- *)
\* Each request runs in its own session; a handler gives way to the other
\* requests at each await: db.execute, db.commit, db.refresh.  A statement
\* sees the rows committed when it runs.

\* A request reaches worker w.
Receive(w, s) ==
    /\ sess[w].pc = "idle"
    /\ nreq < MaxRequests
    /\ nreq' = nreq + 1
    /\ sess' = [sess EXCEPT ![w] = s]

\* get_items: await db.execute(select(ItemDB)), then the response
StartGetItems ==
    \E w \in Workers :
        /\ Receive(w, Done([op |-> "GET /items"], get_items(db, seq).resp))
        /\ UNCHANGED <<db, seq, backend, deleted>>

\* get_item: await db.execute(select ... id == item_id), then the response
StartGetItem ==
    \E w \in Workers, item_id \in Ids :
        /\ Receive(w, Done([op |-> "GET /items/{item_id}", item_id |-> item_id],
                           get_item(db, seq, item_id).resp))
        /\ UNCHANGED <<db, seq, backend, deleted>>

\* create_item up to await db.commit(): the object is built and added
StartCreate ==
    \E w \in Workers, item \in ItemBodies :
        /\ Receive(w, [pc |-> "commit", req |-> [op |-> "POST /items", body |-> item],
                       obj |-> {}, resp |-> NoResp])
        /\ UNCHANGED <<db, seq, backend, deleted>>

\* update_item, patch_item, delete_item up to their commit: the lookup, the
\* 404 when it finds nothing, the object it loaded otherwise
Lookup(w, req) ==
    LET found == Select(db, req.item_id)
    IN  Receive(w, IF found = {} THEN Done(req, NotFound)
                   ELSE [pc |-> "commit", req |-> req, obj |-> found, resp |-> NoResp])

StartUpdate ==
    \E w \in Workers, item_id \in Ids, updated_item \in ItemBodies :
        /\ Lookup(w, [op |-> "PUT /items/{item_id}", item_id |-> item_id,
                      body |-> updated_item])
        /\ UNCHANGED <<db, seq, backend, deleted>>

StartPatch ==
    \E w \in Workers, item_id \in Ids, item_data \in ItemUpdateBodies :
        /\ Lookup(w, [op |-> "PATCH /items/{item_id}", item_id |-> item_id,
                      body |-> item_data])
        /\ UNCHANGED <<db, seq, backend, deleted>>

StartDelete ==
    \E w \in Workers, item_id \in Ids :
        /\ Lookup(w, [op |-> "DELETE /items/{item_id}", item_id |-> item_id])
        /\ UNCHANGED <<db, seq, backend, deleted>>

\* await db.commit() of create_item
CommitCreate ==
    \E w \in Workers :
        /\ sess[w].pc = "commit"
        /\ sess[w].req.op = "POST /items"
        /\ InBounds(db, seq, backend, sess[w].req.body)
        /\ LET ins == Insert(db, seq, backend, sess[w].req.body)
           IN  /\ db' = ins.db
               /\ seq' = ins.seq
               /\ sess' = [sess EXCEPT ![w] =
                            IF ins.ok
                            THEN [@ EXCEPT !.pc = "refresh", !.obj = {[id |-> <<ins.id>>]}]
                            ELSE Done(@.req, ServerError)]
        /\ UNCHANGED <<backend, nreq, deleted>>

\* await db.commit() of update_item and patch_item
CommitUpdate ==
    \E w \in Workers :
        /\ sess[w].pc = "commit"
        /\ sess[w].req.op \in {"PUT /items/{item_id}", "PATCH /items/{item_id}"}
        /\ LET up == Update(db, CHOOSE o \in sess[w].obj : TRUE, sess[w].req.body)
           IN  /\ db' = up.db
               /\ sess' = [sess EXCEPT ![w] =
                            IF up.ok
                            THEN [@ EXCEPT !.pc = "refresh", !.obj = {up.obj}]
                            ELSE Done(@.req, ServerError)]
        /\ UNCHANGED <<seq, backend, nreq, deleted>>

\* await db.delete(db_item); await db.commit() of delete_item, and its response
CommitDelete ==
    \E w \in Workers :
        /\ sess[w].pc = "commit"
        /\ sess[w].req.op = "DELETE /items/{item_id}"
        /\ db' = Delete(db, CHOOSE o \in sess[w].obj : TRUE)
        /\ sess' = [sess EXCEPT ![w] = Done(@.req, Ok(DeletedDetail(@.req.item_id)))]
        /\ UNCHANGED <<seq, backend, nreq, deleted>>

\* await db.refresh(db_item), and the response
RefreshItem ==
    \E w \in Workers :
        /\ sess[w].pc = "refresh"
        /\ sess' = [sess EXCEPT ![w] =
                     Done(@.req, Refresh(db, CHOOSE o \in @.obj : TRUE))]
        /\ UNCHANGED <<db, seq, backend, nreq, deleted>>

NextConc ==
    \/ StartGetItems
    \/ StartGetItem
    \/ StartCreate
    \/ StartUpdate
    \/ StartPatch
    \/ StartDelete
    \/ CommitCreate
    \/ CommitUpdate
    \/ CommitDelete
    \/ RefreshItem
    \/ Close

\* the engine of app.py
InitConc == Init /\ backend = "postgresql"

SpecConc == InitConc /\ [][NextConc]_vars

(* ------------------------------ properties ----------------------------- *)
Get == "GET /items/{item_id}"
List == "GET /items"
Post == "POST /items"
Put == "PUT /items/{item_id}"
Patch == "PATCH /items/{item_id}"
Del == "DELETE /items/{item_id}"

\* the request worker w has answered
Answered(w, ops) == sess[w].pc = "done" /\ sess[w].req.op \in ops
\* the step is the handling of one whole request by the serial worker
Handled(ops) ==
    /\ sess[Serial].pc = "idle"
    /\ sess'[Serial].pc = "done"
    /\ sess'[Serial].req.op \in ops

\* C1: a PUT or PATCH of /items/{X} answered 200 carries id X, and the row is
\* still stored under X: GET /items/{X} returns the same item.
C1_IdNeverChanges ==
    (Answered(Serial, {Put, Patch}) /\ sess[Serial].resp.status = 200)
    => /\ sess[Serial].resp.body.id = <<sess[Serial].req.item_id>>
       /\ get_item(db, seq, sess[Serial].req.item_id).resp = sess[Serial].resp

\* C2: every POST /items is answered 200 with an item whose id is the one the
\* storage generates (whatever id the body carries), an id no stored row has,
\* and whose other fields are the body's, available true and description
\* null when omitted.
C2_CreateGeneratesId ==
    [][Handled({Post}) =>
        LET item == sess'[Serial].req.body
            resp == sess'[Serial].resp
        IN  /\ resp.status = 200
            /\ resp.body.id = <<AutoId(db, seq, backend)>>
            /\ resp.body.id[1] \notin DOMAIN db
            /\ resp.body.name = item["name"]
            /\ resp.body.price = item["price"]
            /\ resp.body.description =
                  (IF "description" \in DOMAIN item THEN item["description"] ELSE Null)
            /\ resp.body.available =
                  (IF "available" \in DOMAIN item THEN item["available"] ELSE <<TRUE>>)
      ]_vars

\* C3: an id whose DELETE was answered 200 has no row in any later state:
\* GET /items/{X} returns 404 from then on.
C3_DeletedStaysGone ==
    \A x \in deleted : get_item(db, seq, x).resp = NotFound

\* C4: a PUT or PATCH of an existing item is answered 200 with the stored row
\* overwritten in exactly the fields the body carries, that row is what the
\* table then holds, and every other row is unchanged.
C4_OnlyPresentFields ==
    [][(Handled({Put, Patch}) /\ sess'[Serial].req.item_id \in DOMAIN db) =>
        LET x == sess'[Serial].req.item_id
            expected == SetAttrs(Row(db, x), sess'[Serial].req.body)
        IN  /\ sess'[Serial].resp = Ok(expected)
            /\ expected \in SelectAll(db')
            /\ \A y \in DOMAIN db \ {x} : y \in DOMAIN db' /\ db'[y] = db[y]
      ]_vars

\* C5: every stored row has a non-null name, price and available, and a
\* GET /items/{id} of a stored id and a GET /items are answered 200.
C5_FullItemShape ==
    /\ \A i \in DOMAIN db : Validates(Row(db, i))
    /\ Answered(Serial, {List}) => sess[Serial].resp.status = 200
    /\ (Answered(Serial, {Get}) /\ sess[Serial].req.item_id \in DOMAIN db)
          => sess[Serial].resp.status = 200

\* C6: when POST /items has returned an item with id X, GET /items/{X} returns
\* 200 with an item equal to it in every field.
C6_RoundTrip ==
    (Answered(Serial, {Post}) /\ sess[Serial].resp.status = 200)
    => /\ sess[Serial].resp.body.id # Null
       /\ get_item(db, seq, sess[Serial].resp.body.id[1]).resp = sess[Serial].resp

\* C6 witness: a POST without description and available has been answered 200.
C6_Witness ==
    /\ Answered(Serial, {Post})
    /\ sess[Serial].resp.status = 200
    /\ DOMAIN sess[Serial].req.body = {"name", "price"}
    /\ sess[Serial].resp.body.available = <<TRUE>>

\* C7: a GET, PUT, PATCH or DELETE of /items/{id} whose id has no row is
\* answered 404 "Item not found" and leaves the table as it was.
C7_NotFound ==
    [][(Handled({Get, Put, Patch, Del}) /\ sess'[Serial].req.item_id \notin DOMAIN db)
        => /\ sess'[Serial].resp = NotFound
           /\ db' = db
           /\ seq' = seq
      ]_vars

\* C7 witness: a DELETE of an id with no row, in a table that holds another
\* row, has been answered 404.
C7_Witness ==
    /\ Answered(Serial, {Del})
    /\ sess[Serial].req.item_id \notin DOMAIN db
    /\ DOMAIN db # {}
    /\ sess[Serial].resp = NotFound

\* C8: GET /items is always answered 200 with one entry per stored row, with
\* the row's current values.
C8_ListAllRows ==
    Answered(Serial, {List}) => sess[Serial].resp = Ok([items |-> SelectAll(db)])

\* C9: the commit of a PUT, PATCH or DELETE of /items/{X} changes the row of
\* no other id Y: Y has a row after it exactly when it had one before, with
\* the same values, so a request on Y is answered as without it.
C9_NoInterference ==
    [][\A w \in Workers :
         (/\ sess[w].pc = "commit"
          /\ sess[w].req.op \in {Put, Patch, Del}
          /\ sess'[w] # sess[w])
         => \A y \in Ids \ {sess[w].req.item_id} :
               /\ y \in DOMAIN db <=> y \in DOMAIN db'
               /\ get_item(db', seq', y).resp = get_item(db, seq, y).resp
      ]_vars

\* the row worker w looked up has since been removed by the DELETE another
\* worker has answered 200
RemovedUnder(w) ==
    /\ sess[w].pc \in {"commit", "refresh"}
    /\ sess[w].req.op \in {Put, Patch, Del}
    /\ \A o \in sess[w].obj : o.id[1] \notin DOMAIN db
    /\ \E v \in Workers \ {w} :
          /\ Answered(v, {Del})
          /\ sess[v].req.item_id = sess[w].req.item_id
          /\ sess[v].resp.status = 200

\* C10: a PUT, PATCH or DELETE of /items/{X} that reaches its commit or its
\* refresh after a concurrent DELETE removed row X is answered 404 "Item not
\* found", not 200 and not a server error.
C10_GoneMeansNotFound ==
    [][\A w \in Workers :
         (RemovedUnder(w) /\ sess'[w] # sess[w])
         => sess'[w] = Done(sess[w].req, NotFound)
      ]_vars

====
